---- MODULE Spec2Model ----
(***************************************************************************)
(* Verification model of the Lens historical-data pipeline:                *)
(*   build_chunks.py                 - deterministic chunk builder         *)
(*   post_chunks_turboDA.py          - sequential uploader                 *)
(*   post_chunks_seq_confirm.py      - sequential uploader, finality wait  *)
(*   post_chunks_seq_confirm_temp.py - same, older variant                 *)
(*   post_chunks_turboDA_async.py    - concurrent, order-aware uploader    *)
(*                                                                         *)
(* Each program is a state machine of its own (SpecBuild, SpecSeq,         *)
(* SpecAsync); the variables of the programs that a specification does not *)
(* run keep their initial values.                                          *)
(***************************************************************************)
EXTENDS Integers, Sequences, FiniteSets, TLC

VARIABLES
    \* ---- build_chunks.py ----
    input,      \* the lines stream_rows() yields: a sequence of line lengths
    bpc,        \* position of main(): start, loop, write_bytes, write_man, closing, done
    pos,        \* number of lines of the stream consumed by the for loop
    cid,        \* main's cid
    buf,        \* main's buf: the lines it holds, each <<index in stream, length>>
    ret,        \* which call of write_chunk is running: "flush" (line 92) or "last" (line 97)
    files,      \* build/chunks: chunk id -> content of the .bin file
    man,        \* build/manifest.ndjson: sequence of manifest entries
    brun,       \* number of times the build was started
    prevFiles,  \* history: build/chunks when the previous run finished
    prevMan,    \* history: the manifest when the previous run finished
    prevDone,   \* history: the previous run finished (it was not interrupted)
    \* ---- the sequential uploaders ----
    prog,       \* which script runs: turboDA, seq_confirm or seq_confirm_temp
    slog,       \* build/uploaded.ndjson: physical lines, each a sequence of fragments
    done,       \* the resume set (done / uploaded)
    spc,        \* position of the script: off, loop, poll, write
    mi,         \* number of manifest lines the main loop has consumed
    sid,        \* submission id of the chunk being processed (0: none)
    info,       \* what the finality wait returned (info / meta)
    npoll,      \* polls of the last submission that did not end the wait (saturates)
    nsub,       \* number of submissions the ledger has accepted, over all runs
    reported,   \* submission ids the ledger has reported finalized
    srun,       \* number of runs started
    lastExit,   \* how the last run ended: none, finished, killed, failed (POST),
                \* load_failed (reading the log), poll_failed, poll_keyerror
    afterFinished, \* history: the run before the current one finished normally
    nposts,     \* history: POSTs of the current run
    nwrites,    \* history: log entries appended by the current run
    elapsed,    \* time.time() - last_t (last_post, last) in ticks, up to the period
    sincePost,  \* history: ticks since the run's latest POST was started, up to the period
    \* ---- post_chunks_turboDA_async.py ----
    aman,       \* build/manifest.ndjson as the uploader reads and replaces it
    objs,       \* main's objs
    apc,        \* position of main(): off, gather
    tasks,      \* the upload tasks: chunk id -> [st, sid, kind, posts]
    compq,      \* tasks that completed, in completion order, not yet awaited by the collector
    pending,    \* main's pending: chunk id -> submission id
    next_id,    \* main's next_id
    wi,         \* number of objs the writer's for loop has handled
    tmp,        \* the writer's temporary file: the objs written to it
    wpc,        \* the writer: run, done, cancelled
    cpc,        \* the collector: run, done, raised, cancelled
    asub,       \* number of submissions of the current run the ledger has accepted
    arun,       \* number of runs started
    aExit,      \* how the last run ended: none, running, finished, failed
    aAfterFinished, \* history: the run before the current one finished normally
    aposts,     \* history: POSTs of the current run
    \* ---- post_chunks_turboDA_async.py: semaphore and QPS throttle of post_chunk ----
    qnow,       \* time.time(), in ticks
    qps_window, \* the module's qps_window: time stamps, oldest first
    qqueued,    \* number of tasks created that wait for the semaphore
    qsleep,     \* wake-up times of the tasks asleep in the throttle (line 26)
    qinflight,  \* number of tasks whose POST is in flight
    qstarts,    \* history: the times at which a POST was started
    \* ---- lens-data-dump-900mb-limit.py ----
    dpc,        \* position of main: off, loop, remainder, done, failed
    dfill,      \* input: number of leading transactions of FillerBytes bytes
    dpos,       \* number of transactions fetch_tx_list has yielded
    buffer,     \* the transactions buffered for the next blob: their tx_bytes
    buf_size,   \* the size main accounts for the buffer
    blobs,      \* number of blobs submitted
    bytes_sent, \* total length of the blobs submitted
    dstopped,   \* history: main left the loop on one of the two quota tests
    dlate,      \* history: a blob was submitted after a quota stop
    dtxsent,    \* history: number of transactions in the blobs submitted
    dlast       \* history: length of the last blob handed to submit_blob

bvars == <<input, bpc, pos, cid, buf, ret, files, man, brun, prevFiles, prevMan, prevDone>>

svars == <<prog, slog, done, spc, mi, sid, info, npoll, nsub, reported, srun, lastExit,
           afterFinished, nposts, nwrites, elapsed, sincePost>>

avars == <<aman, objs, apc, tasks, compq, pending, next_id, wi, tmp, wpc, cpc, asub, arun,
           aExit, aAfterFinished, aposts>>

qvars == <<qnow, qps_window, qqueued, qsleep, qinflight, qstarts>>

dvars == <<dpc, dfill, dpos, buffer, buf_size, blobs, bytes_sent, dstopped, dlate, dtxsent,
           dlast>>

vars == <<bvars, svars, avars, qvars, dvars>>

\* the variables each program does not touch
nonBuild == <<svars, avars, qvars, dvars>>
nonSeq == <<bvars, avars, qvars, dvars>>
nonAsync == <<bvars, svars, qvars, dvars>>
nonThrottle == <<bvars, svars, avars, dvars>>
nonDump == <<bvars, svars, avars, qvars>>

(***************************************************************************)
(* Bounds of the model.                                                    *)
(***************************************************************************)
MaxLines == 4       \* longest input stream explored
MaxBuilds == 2      \* number of times the build is run over the same stream
NChunks == 2        \* chunks of the manifest the uploaders read (ids 1..NChunks)
MaxRuns == 3        \* runs of an uploader over that manifest
MaxPolls == 5       \* value at which the count of unfinished polls saturates
AChunks == 3        \* chunks of the manifest the concurrent uploader reads
MaxARuns == 2       \* runs of the concurrent uploader
SecTicks == 3       \* clock ticks in one second
QTasks == 22        \* upload tasks created in the model of the throttle
QMaxClock == 3      \* last clock tick explored in the model of the throttle
MaxFill == 1001     \* largest number of leading filler transactions of a dump
MaxTail == 3        \* transactions of any shape that follow the fillers

(***************************************************************************)
(* build_chunks.py                                                         *)
(***************************************************************************)
CHUNK_BYTES == 1000000 - 1024

\* Line lengths explored: two that fill a chunk exactly together, one byte
\* more, a line of exactly CHUNK_BYTES and a line one byte too long.
LineLens == {400000, 598976, 598977, 998976, 998977}

Streams == UNION {[1..n -> LineLens] : n \in 0..MaxLines}

\* The i-th line of the stream: its bytes are identified by the index, so
\* that two lines of equal length are still different byte strings.
Line(i) == <<i, input[i]>>

RECURSIVE BufLen(_)
\* len(buf): the number of bytes of a sequence of lines
BufLen(b) == IF b = <<>> THEN 0 ELSE b[1][2] + BufLen(Tail(b))

\* hashlib.sha256(data).hexdigest(), idealised as collision free: equal
\* digests exactly for equal data.
Sha256(data) == <<"sha256", data>>

\* OUT_DIR / f"{cid:07}.bin"
ChunkPath(c) == <<"build/chunks", c>>

ManifestEntry(c, data) ==
    [chunk_id |-> c, sha256 |-> Sha256(data), bytes |-> BufLen(data), path |-> ChunkPath(c)]

\* line 88: cid, buf = 1, bytearray()
FirstCid == 1

\* mutant of NextCid: an id is skipped at every flush
NextCidSkips(c) == c + 2

\* line 93: cid + 1
NextCid(c) == c + 1

\* mutant of Overflows: a line that fills the chunk exactly closes it
OverflowsAtCeiling(b, line) == BufLen(b) + line[2] >= CHUNK_BYTES

\* line 91: the test that closes the running chunk
Overflows(b, line) == BufLen(b) + line[2] > CHUNK_BYTES

\* mutant of Extend: the line is lost
ExtendDrops(b, line) == b

\* line 94: buf.extend(line)
Extend(b, line) == Append(b, line)

\* mutant of WriteFile: the chunk file is not written
WriteFileNot(fs, c, data) == fs

\* line 104: fname.write_bytes(data) creates or replaces the file
WriteFile(fs, c, data) ==
    [d \in (DOMAIN fs) \cup {c} |-> IF d = c THEN data ELSE fs[d]]

\* what a file holds of the text written to it when the process is killed:
\* any prefix, the whole included
Prefixes(txt) == {SubSeq(txt, 1, k) : k \in 0..Len(txt)}

\* mutant of OpenManifest: the manifest is opened for append
OpenManifestAppend(old) == old

\* line 87: MANIFEST_PATH.open("w") truncates the manifest
OpenManifest(old) == <<>>

BuildIdle ==
    /\ input = <<>>
    /\ bpc = "start"
    /\ pos = 0
    /\ cid = 0
    /\ buf = <<>>
    /\ ret = "none"
    /\ files = <<>>
    /\ man = <<>>
    /\ brun = 0
    /\ prevFiles = <<>>
    /\ prevMan = <<>>
    /\ prevDone = FALSE

\* info / meta before a finality wait has returned
NoInfo == [none |-> TRUE]

SeqIdle ==
    /\ prog = "turboDA"
    /\ slog = <<>>
    /\ done = {}
    /\ spc = "off"
    /\ mi = 0
    /\ sid = 0
    /\ info = NoInfo
    /\ npoll = 0
    /\ nsub = 0
    /\ reported = {}
    /\ srun = 0
    /\ lastExit = "none"
    /\ afterFinished = FALSE
    /\ nposts = 0
    /\ nwrites = 0
    /\ elapsed = 0
    /\ sincePost = 0

AsyncIdle ==
    /\ aman = <<>>
    /\ objs = <<>>
    /\ apc = "off"
    /\ tasks = <<>>
    /\ compq = <<>>
    /\ pending = <<>>
    /\ next_id = 1
    /\ wi = 0
    /\ tmp = <<>>
    /\ wpc = "done"
    /\ cpc = "done"
    /\ asub = 0
    /\ arun = 0
    /\ aExit = "none"
    /\ aAfterFinished = FALSE
    /\ aposts = 0

ThrottleIdle ==
    /\ qnow = 0
    /\ qps_window = <<>>
    /\ qqueued = 0
    /\ qsleep = <<>>
    /\ qinflight = 0
    /\ qstarts = <<>>

DumpIdle ==
    /\ dpc = "off"
    /\ dfill = 0
    /\ dpos = 0
    /\ buffer = <<>>
    /\ buf_size = 0
    /\ blobs = 0
    /\ bytes_sent = 0
    /\ dstopped = FALSE
    /\ dlate = FALSE
    /\ dtxsent = 0
    /\ dlast = 0

InitBuild ==
    /\ SeqIdle
    /\ AsyncIdle
    /\ ThrottleIdle
    /\ DumpIdle
    /\ input \in Streams
    /\ bpc = "start"
    /\ pos = 0
    /\ cid = 0
    /\ buf = <<>>
    /\ ret = "none"
    /\ files = <<>>
    /\ man = <<>>
    /\ brun = 0
    /\ prevFiles = <<>>
    /\ prevMan = <<>>
    /\ prevDone = FALSE

\* lines 87-88: main() starts (again, over the same stream, after a run
\* that finished or was interrupted)
StartBuild ==
    /\ bpc \in {"start", "done", "killed"}
    /\ brun < MaxBuilds
    /\ brun' = brun + 1
    /\ prevFiles' = IF bpc = "done" THEN files ELSE <<>>
    /\ prevMan' = IF bpc = "done" THEN man ELSE <<>>
    /\ prevDone' = (bpc = "done")
    /\ man' = OpenManifest(man)
    /\ cid' = FirstCid
    /\ buf' = <<>>
    /\ pos' = 0
    /\ bpc' = "loop"
    /\ UNCHANGED <<input, ret, files>>
    /\ UNCHANGED nonBuild

\* lines 90-94, a line that fits: buf.extend(line)
TakeLine ==
    /\ bpc = "loop"
    /\ pos < Len(input)
    /\ ~Overflows(buf, Line(pos + 1))
    /\ buf' = Extend(buf, Line(pos + 1))
    /\ pos' = pos + 1
    /\ UNCHANGED <<input, bpc, cid, ret, files, man, brun, prevFiles, prevMan, prevDone>>
    /\ UNCHANGED nonBuild

\* lines 90-92, a line that does not fit: write_chunk(cid, buf, man) is called
CloseChunk ==
    /\ bpc = "loop"
    /\ pos < Len(input)
    /\ Overflows(buf, Line(pos + 1))
    /\ ret' = "flush"
    /\ bpc' = "write_bytes"
    /\ UNCHANGED <<input, pos, cid, buf, files, man, brun, prevFiles, prevMan, prevDone>>
    /\ UNCHANGED nonBuild

\* lines 96-97: the stream is over and buf is not empty
LastChunk ==
    /\ bpc = "loop"
    /\ pos = Len(input)
    /\ buf # <<>>
    /\ ret' = "last"
    /\ bpc' = "write_bytes"
    /\ UNCHANGED <<input, pos, cid, buf, files, man, brun, prevFiles, prevMan, prevDone>>
    /\ UNCHANGED nonBuild

\* lines 96, 98: the stream is over and buf is empty
NoLastChunk ==
    /\ bpc = "loop"
    /\ pos = Len(input)
    /\ buf = <<>>
    /\ bpc' = "closing"
    /\ UNCHANGED <<input, pos, cid, buf, ret, files, man, brun, prevFiles, prevMan, prevDone>>
    /\ UNCHANGED nonBuild

\* write_chunk, lines 102-104: fname.write_bytes(data)
WriteBytes ==
    /\ bpc = "write_bytes"
    /\ files' = WriteFile(files, cid, buf)
    /\ bpc' = "write_man"
    /\ UNCHANGED <<input, pos, cid, buf, ret, man, brun, prevFiles, prevMan, prevDone>>
    /\ UNCHANGED nonBuild

\* write_chunk, lines 105-110: the manifest entry; then back in main:
\* line 93-94 after the call of line 92, line 98 after the call of line 97
WriteManifest ==
    /\ bpc = "write_man"
    /\ man' = Append(man, ManifestEntry(cid, buf))
    /\ IF ret = "flush"
       THEN /\ cid' = NextCid(cid)
            /\ buf' = Extend(<<>>, Line(pos + 1))
            /\ pos' = pos + 1
            /\ bpc' = "loop"
       ELSE /\ bpc' = "closing"
            /\ UNCHANGED <<cid, buf, pos>>
    /\ ret' = "none"
    /\ UNCHANGED <<input, files, brun, prevFiles, prevMan, prevDone>>
    /\ UNCHANGED nonBuild

\* lines 98-99: man.close(), "Finished"
CloseManifest ==
    /\ bpc = "closing"
    /\ bpc' = "done"
    /\ UNCHANGED <<input, pos, cid, buf, ret, files, man, brun, prevFiles, prevMan, prevDone>>
    /\ UNCHANGED nonBuild

\* the process is interrupted: its memory is gone; of the manifest entries
\* written (man_file.write is buffered, lines 87, 105-110) a prefix is in the
\* file; a torn last line is no entry
BuildKill ==
    /\ bpc \in {"loop", "write_bytes", "write_man", "closing"}
    /\ man' \in Prefixes(man)
    /\ bpc' = "killed"
    /\ pos' = 0
    /\ cid' = 0
    /\ buf' = <<>>
    /\ ret' = "none"
    /\ UNCHANGED <<input, files, brun, prevFiles, prevMan, prevDone>>
    /\ UNCHANGED nonBuild

\* the process is interrupted within fname.write_bytes(data), line 104: the
\* chunk file holds a part of the data
BuildKillInWrite ==
    /\ bpc = "write_bytes"
    /\ \E part \in Prefixes(buf) \ {buf} : files' = WriteFile(files, cid, part)
    /\ man' \in Prefixes(man)
    /\ bpc' = "killed"
    /\ pos' = 0
    /\ cid' = 0
    /\ buf' = <<>>
    /\ ret' = "none"
    /\ UNCHANGED <<input, brun, prevFiles, prevMan, prevDone>>
    /\ UNCHANGED nonBuild

NextBuild ==
    \/ StartBuild
    \/ TakeLine
    \/ CloseChunk
    \/ LastChunk
    \/ NoLastChunk
    \/ WriteBytes
    \/ WriteManifest
    \/ CloseManifest
    \/ BuildKill
    \/ BuildKillInWrite

SpecBuild == InitBuild /\ [][NextBuild]_vars

(***************************************************************************)
(* Properties of the build                                                 *)
(***************************************************************************)
RECURSIVE ConcatChunks(_)
\* the contents of the chunk files of manifest entries 1..k, concatenated
ConcatChunks(k) ==
    IF k = 0 THEN <<>> ELSE ConcatChunks(k - 1) \o files[man[k].chunk_id]

StreamPrefix(n) == [i \in 1..n |-> Line(i)]

\* C1: every chunk handed to write_chunk, and every "bytes" value of the
\* manifest, is at most CHUNK_BYTES.
C1_SizeBound ==
    /\ \A k \in 1..Len(man) : man[k].bytes <= CHUNK_BYTES
    /\ \A c \in DOMAIN files : BufLen(files[c]) <= CHUNK_BYTES

\* C2: a line that is alone longer than CHUNK_BYTES stops the build with an
\* error: it is written into no chunk and the build does not finish.
C2_OversizeIsFatal ==
    \A i \in 1..Len(input) :
        input[i] > CHUNK_BYTES =>
            /\ bpc # "done"
            /\ \A c \in DOMAIN files : \A j \in 1..Len(files[c]) : files[c][j] # Line(i)

\* C3: the chunk ids of the manifest, in the order written, are 1, 2, ..., n.
C3_ContiguousIds ==
    \A k \in 1..Len(man) : man[k].chunk_id = k

C3_Witness ==
    /\ bpc = "done"
    /\ Len(man) >= 3

\* C4: the chunks concatenated in chunk_id order are the lines of the stream
\* in the order yielded: while the loop runs, the chunks written followed by
\* buf are the lines consumed so far; when the build is done, the chunks are
\* the whole stream.
C4_ConcatIsStream ==
    /\ bpc = "loop" => ConcatChunks(Len(man)) \o buf = StreamPrefix(pos)
    /\ bpc = "done" => ConcatChunks(Len(man)) = StreamPrefix(Len(input))

C4_Witness ==
    /\ bpc = "done"
    /\ Len(man) >= 2
    /\ Len(input) >= 3

\* C5: packing is greedy: a chunk together with the first line of the next
\* chunk exceeds CHUNK_BYTES, the last chunk is not empty, and three lines of
\* 400,000 bytes give two chunks of 800,000 and 400,000 bytes.
C5_Greedy ==
    /\ \A k \in 1..(Len(man) - 1) :
          /\ files[man[k + 1].chunk_id] # <<>>
          /\ man[k].bytes + files[man[k + 1].chunk_id][1][2] > CHUNK_BYTES
    /\ (bpc = "done" /\ man # <<>>) => man[Len(man)].bytes > 0
    /\ (bpc = "done" /\ input = <<400000, 400000, 400000>>) =>
          [k \in 1..Len(man) |-> man[k].bytes] = <<800000, 400000>>

C5_Witness ==
    /\ bpc = "done"
    /\ input = <<400000, 400000, 400000>>
    /\ Len(man) = 2

\* C6: a second run of the build over the same stream leaves the same
\* number of chunks, the same chunk contents and the same manifest (ids,
\* lengths and digests) as the finished run before it.
C6_Deterministic ==
    (bpc = "done" /\ brun >= 2 /\ prevDone) =>
        /\ files = prevFiles
        /\ man = prevMan

C6_Witness ==
    /\ bpc = "done"
    /\ brun >= 2
    /\ prevDone
    /\ Len(man) >= 2

\* C19: in every state, a state after an interruption at any step
\* included, every manifest entry refers to a chunk file that exists and
\* has the length and the digest the entry records.
C19_WriteBeforeRecord ==
    \A k \in 1..Len(man) :
        /\ man[k].chunk_id \in DOMAIN files
        /\ BufLen(files[man[k].chunk_id]) = man[k].bytes
        /\ Sha256(files[man[k].chunk_id]) = man[k].sha256

\* the build was interrupted after it wrote a chunk file whose entry is not
\* in the manifest, which holds the entries of the chunks before it
C19_Witness ==
    /\ bpc = "killed"
    /\ man # <<>>
    /\ \E c \in DOMAIN files : \A k \in 1..Len(man) : man[k].chunk_id # c

(***************************************************************************)
(* The sequential uploaders: post_chunks_turboDA.py, post_chunks_seq_      *)
(* confirm.py and post_chunks_seq_confirm_temp.py.  They read the manifest *)
(* the build wrote (chunk ids 1..NChunks) and append to uploaded.ndjson.   *)
(* The uploaded_at field of an entry (a clock reading) is left out.        *)
(*                                                                         *)
(* The log is a sequence of physical lines.  A line is the sequence of the *)
(* fragments written on it; a fragment is one write of an entry, of kind   *)
(*   "full"  the JSON text and its newline,                                *)
(*   "nonl"  the whole JSON text, the process killed before the newline,   *)
(*   "torn"  a proper prefix of the JSON text, the process killed there.   *)
(***************************************************************************)
Progs == {"turboDA", "seq_confirm", "seq_confirm_temp"}

\* Python's None, the default of dict.get; falsy in "a or b"
None == 0

\* json.loads(line) succeeds exactly when the line holds one whole JSON
\* document: a torn prefix is no JSON, and neither is a document followed by
\* another fragment.
Parses(line) == Len(line) = 1 /\ line[1].kind \in {"full", "nonl"}

\* the chunk ids of the lines of the log that parse
ResumeSet(log) ==
    {log[k][1].entry.chunk_id : k \in {j \in 1..Len(log) : Parses(log[j])}}

\* post_chunks_turboDA ignores malformed lines (try/except); the two
\* seq_confirm scripts call json.loads in a comprehension / loop unguarded.
LoadRaises(p, log) ==
    /\ p # "turboDA"
    /\ \E k \in 1..Len(log) : ~Parses(log[k])

\* fout.write(...) on a file opened with "a": the text goes after the last
\* byte of the file, on the last line when that line has no newline yet.
AppendFragment(log, frag) ==
    IF log # <<>> /\ log[Len(log)][Len(log[Len(log)])].kind # "full"
    THEN [log EXCEPT ![Len(log)] = Append(@, frag)]
    ELSE Append(log, <<frag>>)

(* ---- the ledger's answers to a poll of submission s ---- *)
FinBlock(s) == 100 + s
FinTx(s) == 200 + s
FinHash(s) == 300 + s

PollKinds ==
    {"neterr", "http500", "badjson", "notdict",
     "pending_turbo", "pending_hex", "fin_turbo", "fin_hex"}

FinKinds == {"fin_turbo", "fin_hex"}

\* the polls that fail: no answer, an error status, a body that is no JSON,
\* a JSON body that is no object
PollErrorKinds == {"neterr", "http500", "badjson", "notdict"}

\* the JSON object of a response whose body is one
Body(kind, s) ==
    CASE kind = "pending_turbo" -> [state |-> "Pending"]
      [] kind = "pending_hex"   -> [finalized |-> FALSE, block |-> None]
      [] kind = "fin_turbo"     ->
            [state |-> "Finalized",
             data |-> [block_number |-> FinBlock(s), block_hash |-> FinHash(s),
                       tx_hash |-> FinTx(s)]]
      [] kind = "fin_hex"       ->
            [finalized |-> TRUE, block |-> FinBlock(s), extrinsic |-> FinTx(s)]

\* d.get(k)
PyGet(d, k) == IF k \in DOMAIN d THEN d[k] ELSE None

\* a or b
PyOr(a, b) == IF a # None THEN a ELSE b

StateIsFinalized(d) == "state" \in DOMAIN d /\ d.state = "Finalized"

FinalizedIsTrue(d) == "finalized" \in DOMAIN d /\ d.finalized = TRUE

\* mutant of WaitFinalized: the wait ends as soon as the answer has a
\* "finalized" key, whatever its value
WaitFinalizedOnKey(kind, s) ==
    CASE kind \in {"neterr", "http500", "badjson"} -> "sleep"
      [] kind = "notdict" -> "raise"
      [] OTHER ->
            IF StateIsFinalized(Body(kind, s)) \/ "finalized" \in DOMAIN Body(kind, s)
            THEN "return" ELSE "sleep"

\* post_chunks_seq_confirm.wait_finalized, one turn of its loop: "return",
\* "sleep" (poll again) or "raise" (an exception the except clause does not
\* name: .get on a JSON value that is no object)
WaitFinalized(kind, s) ==
    CASE kind \in {"neterr", "http500", "badjson"} -> "sleep"
      [] kind = "notdict" -> "raise"
      [] OTHER ->
            IF StateIsFinalized(Body(kind, s)) \/ FinalizedIsTrue(Body(kind, s))
            THEN "return" ELSE "sleep"

\* what wait_finalized returns: data["data"] (Turbo) or data (Hex)
WaitFinalizedInfo(kind, s) ==
    IF StateIsFinalized(Body(kind, s)) THEN Body(kind, s).data ELSE Body(kind, s)

\* post_chunks_seq_confirm_temp, one turn of its poll loop: nothing is
\* caught, the status is not looked at, meta["finalized"] must exist
PollTemp(kind, s) ==
    CASE kind \in {"neterr", "http500", "badjson", "notdict"} -> "raise"
      [] OTHER ->
            IF "finalized" \notin DOMAIN Body(kind, s) THEN "raise"
            ELSE IF Body(kind, s).finalized THEN "return" ELSE "sleep"

\* the JSON object each script writes to the log
LogEntry(p, c, s, inf) ==
    CASE p = "turboDA" -> [chunk_id |-> c, submission_id |-> s]
      [] p = "seq_confirm" ->
            [chunk_id |-> c, submission_id |-> s,
             avail_block |-> PyOr(PyGet(inf, "block_number"), PyGet(inf, "block")),
             block_hash |-> PyGet(inf, "block_hash"),
             avail_tx |-> PyOr(PyGet(inf, "tx_hash"), PyGet(inf, "extrinsic"))]
      [] p = "seq_confirm_temp" ->
            [chunk_id |-> c, submission_id |-> s,
             avail_block |-> inf.block, avail_tx |-> inf.extrinsic]

InitSeq ==
    /\ BuildIdle
    /\ AsyncIdle
    /\ ThrottleIdle
    /\ DumpIdle
    /\ prog \in Progs
    /\ slog = <<>>
    /\ done = {}
    /\ spc = "off"
    /\ mi = 0
    /\ sid = 0
    /\ info = NoInfo
    /\ npoll = 0
    /\ nsub = 0
    /\ reported = {}
    /\ srun = 0
    /\ lastExit = "none"
    /\ afterFinished = FALSE
    /\ nposts = 0
    /\ nwrites = 0
    /\ elapsed = 0
    /\ sincePost = 0

RATE == 3
SEQ_MAX_QPS == 3
QPS == 3

\* the posts per second each script is configured for: RATE, MAX_QPS, QPS
Qps(p) ==
    CASE p = "turboDA" -> RATE
      [] p = "seq_confirm" -> SEQ_MAX_QPS
      [] p = "seq_confirm_temp" -> QPS

\* 1/RATE seconds in ticks: the first tick at which a sleep of that length
\* is over
PeriodTicks(p) == (SecTicks + Qps(p) - 1) \div Qps(p)

\* throttle: wait = max(0, (1/RATE) - (time.time() - last_t))
Wait(p, e) == IF PeriodTicks(p) > e THEN PeriodTicks(p) - e ELSE 0

\* throttle: time.time() - last_t when throttle returns.  post_chunks_turboDA
\* and post_chunks_seq_confirm set last_t on every call; in
\* post_chunks_seq_confirm_temp "last=time.time()" is in the body of
\* "if wait:" and runs only after a sleep.
AfterThrottle(p, slept, e) ==
    IF p = "seq_confirm_temp" /\ ~slept THEN e ELSE 0

\* the process ends (normally, by an exception or by a kill): its memory is gone
Exit(how) ==
    /\ spc' = "off"
    /\ lastExit' = how
    /\ done' = {}
    /\ mi' = 0
    /\ sid' = 0
    /\ info' = NoInfo
    /\ elapsed' = 0
    /\ sincePost' = 0

\* start of a run: the resume set is read from the log, then the log is
\* opened for append and the manifest for reading
StartRun ==
    /\ spc = "off"
    /\ srun < MaxRuns
    /\ srun' = srun + 1
    /\ afterFinished' = (lastExit = "finished")
    /\ nposts' = 0
    /\ nwrites' = 0
    /\ npoll' = 0
    /\ IF LoadRaises(prog, slog)
       THEN Exit("load_failed")
       ELSE /\ done' = ResumeSet(slog)
            /\ spc' = "loop"
            /\ lastExit' = "running"
            /\ mi' = 0
            /\ elapsed' = PeriodTicks(prog)
            /\ sincePost' = PeriodTicks(prog)
            /\ UNCHANGED <<sid, info>>
    /\ UNCHANGED <<prog, slog, nsub, reported>>
    /\ UNCHANGED nonSeq

\* main loop: the chunk is in the resume set
SkipDone ==
    /\ spc = "loop"
    /\ mi < NChunks
    /\ (mi + 1) \in done
    /\ mi' = mi + 1
    /\ UNCHANGED <<prog, slog, done, spc, sid, info, npoll, nsub, reported, srun, lastExit,
                   afterFinished, nposts, nwrites, elapsed, sincePost>>
    /\ UNCHANGED nonSeq

\* main loop: throttle() finds that it must wait and sleeps
ThrottleSleeps ==
    /\ spc = "loop"
    /\ mi < NChunks
    /\ (mi + 1) \notin done
    /\ Wait(prog, elapsed) > 0
    /\ spc' = "sleep"
    /\ UNCHANGED <<prog, slog, done, mi, sid, info, npoll, nsub, reported, srun, lastExit,
                   afterFinished, nposts, nwrites, elapsed, sincePost>>
    /\ UNCHANGED nonSeq

\* time passes while the script runs
SeqTick ==
    /\ spc # "off"
    /\ elapsed < PeriodTicks(prog) \/ sincePost < PeriodTicks(prog)
    /\ elapsed' = IF elapsed < PeriodTicks(prog) THEN elapsed + 1 ELSE elapsed
    /\ sincePost' = IF sincePost < PeriodTicks(prog) THEN sincePost + 1 ELSE sincePost
    /\ UNCHANGED <<prog, slog, done, spc, mi, sid, info, npoll, nsub, reported, srun, lastExit,
                   afterFinished, nposts, nwrites>>
    /\ UNCHANGED nonSeq

\* main loop: throttle() returns (it had not to wait, or its sleep is over),
\* then the POST, which the ledger accepts
PostOk ==
    /\ spc \in {"loop", "sleep"}
    /\ mi < NChunks
    /\ (mi + 1) \notin done
    /\ Wait(prog, elapsed) = 0
    /\ elapsed' = AfterThrottle(prog, spc = "sleep", elapsed)
    /\ sincePost' = 0
    /\ nsub' = nsub + 1
    /\ sid' = nsub + 1
    /\ nposts' = nposts + 1
    /\ npoll' = 0
    /\ spc' = IF prog = "turboDA" THEN "write" ELSE "poll"
    /\ UNCHANGED <<prog, slog, done, mi, info, reported, srun, lastExit, afterFinished, nwrites>>
    /\ UNCHANGED nonSeq

\* main loop: throttle() returns, then the POST, which raises (network
\* error, retries used up, an error status, an answer without submission_id)
PostRaises ==
    /\ spc \in {"loop", "sleep"}
    /\ mi < NChunks
    /\ (mi + 1) \notin done
    /\ Wait(prog, elapsed) = 0
    /\ nposts' = nposts + 1
    /\ Exit("failed")
    /\ UNCHANGED <<prog, slog, npoll, nsub, reported, srun, afterFinished, nwrites>>
    /\ UNCHANGED nonSeq

\* one poll of the finality wait
Poll ==
    /\ spc = "poll"
    /\ \E kind \in PollKinds :
        LET outcome == IF prog = "seq_confirm" THEN WaitFinalized(kind, sid)
                       ELSE PollTemp(kind, sid)
        IN  /\ reported' = IF kind \in FinKinds THEN reported \cup {sid} ELSE reported
            /\ CASE outcome = "return" ->
                      /\ info' = IF prog = "seq_confirm" THEN WaitFinalizedInfo(kind, sid)
                                 ELSE Body(kind, sid)
                      /\ spc' = "write"
                      /\ UNCHANGED <<done, mi, sid, npoll, lastExit, elapsed, sincePost>>
                 [] outcome = "sleep" ->
                      /\ npoll' = IF npoll < MaxPolls THEN npoll + 1 ELSE npoll
                      /\ UNCHANGED <<done, spc, mi, sid, info, lastExit, elapsed, sincePost>>
                 [] outcome = "raise" ->
                      /\ Exit(IF kind \in PollErrorKinds THEN "poll_failed"
                              ELSE "poll_keyerror")
                      /\ UNCHANGED npoll
    /\ UNCHANGED <<prog, slog, nsub, srun, afterFinished, nposts, nwrites>>
    /\ UNCHANGED nonSeq

\* fout.write(json.dumps({...}) + "\n"); fout.flush()
WriteEntry ==
    /\ spc = "write"
    /\ slog' = AppendFragment(slog, [entry |-> LogEntry(prog, mi + 1, sid, info), kind |-> "full"])
    /\ nwrites' = nwrites + 1
    /\ mi' = mi + 1
    /\ sid' = 0
    /\ info' = NoInfo
    /\ spc' = "loop"
    /\ UNCHANGED <<prog, done, npoll, nsub, reported, srun, lastExit, afterFinished, nposts,
                   elapsed, sincePost>>
    /\ UNCHANGED nonSeq

\* the manifest is read to its end: the script ends normally
Finish ==
    /\ spc = "loop"
    /\ mi = NChunks
    /\ Exit("finished")
    /\ UNCHANGED <<prog, slog, npoll, nsub, reported, srun, afterFinished, nposts, nwrites>>
    /\ UNCHANGED nonSeq

\* the process is killed between two writes
Kill ==
    /\ spc # "off"
    /\ Exit("killed")
    /\ UNCHANGED <<prog, slog, npoll, nsub, reported, srun, afterFinished, nposts, nwrites>>
    /\ UNCHANGED nonSeq

\* the process is killed (or the machine stops) while the log line is being
\* written: a prefix of the line reaches the file
KillInWrite ==
    /\ spc = "write"
    /\ \E kind \in {"torn", "nonl"} :
        slog' = AppendFragment(slog, [entry |-> LogEntry(prog, mi + 1, sid, info), kind |-> kind])
    /\ Exit("killed")
    /\ UNCHANGED <<prog, npoll, nsub, reported, srun, afterFinished, nposts, nwrites>>
    /\ UNCHANGED nonSeq

NextSeq ==
    \/ StartRun
    \/ SkipDone
    \/ ThrottleSleeps
    \/ SeqTick
    \/ PostOk
    \/ PostRaises
    \/ Poll
    \/ WriteEntry
    \/ Finish
    \/ Kill
    \/ KillInWrite

SpecSeq == InitSeq /\ [][NextSeq]_vars

(***************************************************************************)
(* Properties of the sequential uploaders                                  *)
(***************************************************************************)
\* all fragments ever written to the log
Fragments == {slog[k][j] : <<k, j>> \in {x \in (1..Len(slog)) \X (1..(2 * MaxRuns)) :
                                          x[2] <= Len(slog[x[1]])}}

\* C8: after a run that finished normally, the next run over the same
\* manifest and the log as that run left it posts nothing and appends no
\* entry.
C8_ResumeIdempotent ==
    afterFinished => (nposts = 0 /\ nwrites = 0)

\* C9: in post_chunks_seq_confirm every entry of the log, whatever the
\* number of polls that did not end the wait, carries a submission the ledger
\* has reported finalized and the block and transaction of that report; the
\* entry is written only once that report is in hand.
C9_EntryAfterFinality ==
    prog = "seq_confirm" =>
        /\ \A f \in Fragments :
              /\ f.entry.submission_id \in reported
              /\ f.entry.avail_block = FinBlock(f.entry.submission_id)
              /\ f.entry.avail_tx = FinTx(f.entry.submission_id)
        /\ spc = "write" => sid \in reported

C9_Witness ==
    /\ prog = "seq_confirm"
    /\ spc = "loop"
    /\ nwrites >= 1
    /\ npoll = MaxPolls
    /\ \E f \in Fragments : f.kind = "full" /\ f.entry.submission_id = nsub

\* C13: for every content of the log, torn or corrupt lines included, the
\* start of a run does not abort, and the resume set it computes is the set
\* of the chunk ids of the well-formed lines.
C13_StartupTolerant ==
    /\ lastExit # "load_failed"
    /\ (spc = "loop" /\ mi = 0 /\ nposts = 0) => done = ResumeSet(slog)

\* C14: in the two uploaders that wait for finality, a poll that fails (no
\* answer, an error status, a malformed body) does not stop the process.
C14_PollErrorsSwallowed ==
    prog \in {"seq_confirm", "seq_confirm_temp"} => lastExit # "poll_failed"

\* C20: in each of the three scripts, a POST that is not the first of its
\* run is started at least 1/QPS seconds after the POST before it.
C20_PostsSpaced ==
    [][(nposts' = nposts + 1 /\ nposts >= 1) => sincePost * Qps(prog) >= SecTicks]_vars

\* the lines of the log that parse, in file order
WellFormed(log) == SelectSeq(log, Parses)

\* C18: in post_chunks_turboDA and post_chunks_seq_confirm, after any runs
\* and kills (a kill in the middle of a write included), the well-formed
\* entries of the log are, in file order, the chunk ids 1, 2, ..., k.
C18_LogIsPrefix ==
    prog \in {"turboDA", "seq_confirm"} =>
        \A i \in 1..Len(WellFormed(slog)) : WellFormed(slog)[i][1].entry.chunk_id = i

(***************************************************************************)
(* post_chunks_turboDA_async.py: the concurrent uploader.  It reads the    *)
(* manifest the build wrote (chunk ids 1..AChunks, in order), of which any *)
(* subset of the entries may carry a submission_id already; of an obj only *)
(* chunk_id and submission_id are kept (sha256, bytes, path are copied     *)
(* through unchanged and uploaded_at is a clock reading).                  *)
(***************************************************************************)
CONCURRENCY == 10

\* "submission_id" in obj
HasSid(obj) == "submission_id" \in DOMAIN obj

\* a submission id left in the manifest by an earlier, completed upload
OldSid(k) == 1000 + k

\* line 35: the "submission_id" of the answer to the POST of chunk k in run
\* number run; the ledger gives a new id to every submission
NewSid(run, k) == 10 * run + k

Manifests ==
    {[k \in 1..AChunks |-> IF k \in S THEN [chunk_id |-> k, submission_id |-> OldSid(k)]
                           ELSE [chunk_id |-> k]] : S \in SUBSET (1..AChunks)}

\* what the ledger, or the network, answers to a POST
PostKinds == {"ok", "neterr", "http429", "http503", "http400"}

\* the outcomes the specification calls retryable: network error,
\* rate-limited and server-error status
RetryableKinds == {"neterr", "http429", "http503"}

\* post_chunk, lines 29-36: a network error raises out of session.post, a
\* status other than 200 raises RuntimeError, a 200 returns (chunk_id, sid)
PostChunkOutcome(kind) == IF kind = "ok" THEN "return" ELSE "raise"

NoTask == [st |-> "none", sid |-> None, kind |-> "none", posts |-> 0]

InFlight == {k \in DOMAIN tasks : tasks[k].st = "inflight"}

\* mutant of WriterTakes: the writer takes any completed submission
WriterTakesAny(nid, pend) == DOMAIN pend

\* lines 57-59: the writer waits until next_id is in pending, then pops it
WriterTakes(nid, pend) == IF nid \in DOMAIN pend THEN {nid} ELSE {}

\* mutant of NextId: the writer does not move on to the next chunk id
NextIdStays(nid) == nid

\* line 63: next_id+=1, for every obj of the manifest
NextId(nid) == nid + 1

\* pending.pop(key)
Pop(pend, key) == [k \in (DOMAIN pend) \ {key} |-> pend[k]]

\* pending[key] = value
Put(pend, key, value) == [k \in (DOMAIN pend) \cup {key} |-> IF k = key THEN value ELSE pend[k]]

InitAsync ==
    /\ BuildIdle
    /\ SeqIdle
    /\ ThrottleIdle
    /\ DumpIdle
    /\ aman \in Manifests
    /\ objs = <<>>
    /\ apc = "off"
    /\ tasks = <<>>
    /\ compq = <<>>
    /\ pending = <<>>
    /\ next_id = 1
    /\ wi = 0
    /\ tmp = <<>>
    /\ wpc = "done"
    /\ cpc = "done"
    /\ asub = 0
    /\ arun = 0
    /\ aExit = "none"
    /\ aAfterFinished = FALSE
    /\ aposts = 0

\* main, lines 39-48 and 68-72, up to the gather of line 80: the manifest is
\* loaded, one task is created per obj without submission_id, the writer and
\* the collector are started
StartAsync ==
    /\ apc = "off"
    /\ arun < MaxARuns
    /\ arun' = arun + 1
    /\ aAfterFinished' = (aExit = "finished")
    /\ aExit' = "running"
    /\ aposts' = 0
    /\ objs' = aman
    /\ tasks' = [k \in 1..Len(aman) |->
                   IF HasSid(aman[k]) THEN NoTask ELSE [NoTask EXCEPT !.st = "queued"]]
    /\ compq' = <<>>
    /\ pending' = <<>>
    /\ next_id' = 1
    /\ wi' = 0
    /\ tmp' = <<>>
    /\ wpc' = "run"
    /\ cpc' = "run"
    /\ apc' = "gather"
    /\ asub' = 0
    /\ UNCHANGED aman
    /\ UNCHANGED nonAsync

\* post_chunk, lines 21-29: the task enters the semaphore, passes the QPS
\* throttle and sends its POST
TaskPosts(k) ==
    /\ apc = "gather"
    /\ tasks[k].st = "queued"
    /\ Cardinality(InFlight) < CONCURRENCY
    /\ tasks' = [tasks EXCEPT ![k].st = "inflight", ![k].posts = @ + 1]
    /\ aposts' = aposts + 1
    /\ UNCHANGED <<aman, objs, apc, compq, pending, next_id, wi, tmp, wpc, cpc, asub, arun,
                   aExit, aAfterFinished>>
    /\ UNCHANGED nonAsync

\* post_chunk, lines 29-36: the POST of the task ends; the task completes
\* with (chunk_id, sid) or with an exception and leaves the semaphore
TaskCompletes(k) ==
    /\ apc = "gather"
    /\ tasks[k].st = "inflight"
    /\ \E kind \in PostKinds :
        IF PostChunkOutcome(kind) = "return"
        THEN /\ tasks' = [tasks EXCEPT ![k].st = "ok", ![k].sid = NewSid(arun, k),
                                       ![k].kind = kind]
             /\ asub' = asub + 1
        ELSE /\ tasks' = [tasks EXCEPT ![k].st = "raised", ![k].kind = kind]
             /\ UNCHANGED asub
    /\ compq' = Append(compq, k)
    /\ UNCHANGED <<aman, objs, apc, pending, next_id, wi, tmp, wpc, cpc, arun, aExit,
                   aAfterFinished, aposts>>
    /\ UNCHANGED nonAsync

\* collector, lines 76-78: the next completed task is awaited; its result
\* goes to pending, its exception ends the collector
Collect ==
    /\ apc = "gather"
    /\ cpc = "run"
    /\ compq # <<>>
    /\ LET k == Head(compq)
       IN  IF tasks[k].st = "ok"
           THEN /\ pending' = Put(pending, objs[k].chunk_id, tasks[k].sid)
                /\ tasks' = [tasks EXCEPT ![k].st = "got"]
                /\ UNCHANGED cpc
           ELSE /\ cpc' = "raised"
                /\ UNCHANGED <<pending, tasks>>
    /\ compq' = Tail(compq)
    /\ UNCHANGED <<aman, objs, apc, next_id, wi, tmp, wpc, asub, arun, aExit, aAfterFinished,
                   aposts>>
    /\ UNCHANGED nonAsync

\* collector, line 76: as_completed has no task left
CollectorEnds ==
    /\ apc = "gather"
    /\ cpc = "run"
    /\ \A k \in DOMAIN tasks : tasks[k].st \in {"none", "got"}
    /\ cpc' = "done"
    /\ UNCHANGED <<aman, objs, apc, tasks, compq, pending, next_id, wi, tmp, wpc, asub, arun,
                   aExit, aAfterFinished, aposts>>
    /\ UNCHANGED nonAsync

\* writer, lines 53-55 and 63: the obj has a submission_id already
WriterCopies ==
    /\ apc = "gather"
    /\ wpc = "run"
    /\ wi < Len(objs)
    /\ HasSid(objs[wi + 1])
    /\ tmp' = Append(tmp, objs[wi + 1])
    /\ next_id' = NextId(next_id)
    /\ wi' = wi + 1
    /\ UNCHANGED <<aman, objs, apc, tasks, compq, pending, wpc, cpc, asub, arun, aExit,
                   aAfterFinished, aposts>>
    /\ UNCHANGED nonAsync

\* writer, lines 56-63: next_id is in pending; the obj gets its
\* submission_id and is written (while it is not, the writer sleeps)
WriterEmits ==
    /\ apc = "gather"
    /\ wpc = "run"
    /\ wi < Len(objs)
    /\ ~HasSid(objs[wi + 1])
    /\ \E key \in WriterTakes(next_id, pending) :
        LET obj == [chunk_id |-> objs[wi + 1].chunk_id, submission_id |-> pending[key]]
        IN  /\ objs' = [objs EXCEPT ![wi + 1] = obj]
            /\ tmp' = Append(tmp, obj)
            /\ pending' = Pop(pending, key)
    /\ next_id' = NextId(next_id)
    /\ wi' = wi + 1
    /\ UNCHANGED <<aman, apc, tasks, compq, wpc, cpc, asub, arun, aExit, aAfterFinished,
                   aposts>>
    /\ UNCHANGED nonAsync

\* writer, lines 64-66: the temporary file replaces the manifest
WriterFinishes ==
    /\ apc = "gather"
    /\ wpc = "run"
    /\ wi = Len(objs)
    /\ aman' = tmp
    /\ wpc' = "done"
    /\ UNCHANGED <<objs, apc, tasks, compq, pending, next_id, wi, tmp, cpc, asub, arun, aExit,
                   aAfterFinished, aposts>>
    /\ UNCHANGED nonAsync

\* line 80: the writer and the collector are both done, main returns
MainReturns ==
    /\ apc = "gather"
    /\ wpc = "done"
    /\ cpc = "done"
    /\ apc' = "off"
    /\ aExit' = "finished"
    /\ UNCHANGED <<aman, objs, tasks, compq, pending, next_id, wi, tmp, wpc, cpc, asub, arun,
                   aAfterFinished, aposts>>
    /\ UNCHANGED nonAsync

\* line 80: the collector raised, gather raises in main, and asyncio.run
\* cancels what still runs: the writer and the tasks that have not completed
MainRaises ==
    /\ apc = "gather"
    /\ cpc = "raised"
    /\ apc' = "off"
    /\ aExit' = "failed"
    /\ wpc' = IF wpc = "run" THEN "cancelled" ELSE wpc
    /\ tasks' = [k \in DOMAIN tasks |->
                   IF tasks[k].st \in {"queued", "inflight"}
                   THEN [tasks[k] EXCEPT !.st = "cancelled"] ELSE tasks[k]]
    /\ UNCHANGED <<aman, objs, compq, pending, next_id, wi, tmp, cpc, asub, arun,
                   aAfterFinished, aposts>>
    /\ UNCHANGED nonAsync

NextAsync ==
    \/ StartAsync
    \/ \E k \in 1..AChunks : TaskPosts(k)
    \/ \E k \in 1..AChunks : TaskCompletes(k)
    \/ Collect
    \/ CollectorEnds
    \/ WriterCopies
    \/ WriterEmits
    \/ WriterFinishes
    \/ MainReturns
    \/ MainRaises

SpecAsync == InitAsync /\ [][NextAsync]_vars

\* The event loop of asyncio runs every coroutine that is ready: a task that
\* can enter the semaphore does, the collector and the writer go on when
\* what they wait for is there, and main returns when gather does.  A POST
\* ends, at the latest by the ClientTimeout of line 48.  Whether the script
\* is started again is up to its user.
FairAsync ==
    /\ \A k \in 1..AChunks : WF_vars(TaskPosts(k)) /\ WF_vars(TaskCompletes(k))
    /\ WF_vars(Collect)
    /\ WF_vars(CollectorEnds)
    /\ WF_vars(WriterCopies)
    /\ WF_vars(WriterEmits)
    /\ WF_vars(WriterFinishes)
    /\ WF_vars(MainReturns)
    /\ WF_vars(MainRaises)

SpecAsyncFair == SpecAsync /\ FairAsync

(***************************************************************************)
(* Properties of the concurrent uploader                                   *)
(***************************************************************************)
\* C7: whatever the order in which the uploads complete, and also when one
\* fails, the writer emits the entries in strictly increasing chunk_id
\* order and without gap: when the entry of chunk k is emitted, every lower
\* chunk id has been emitted with a submission_id; and the submission_id an
\* entry is emitted with is the one of its own chunk.
C7_WriterInOrder ==
    \A i \in 1..Len(tmp) :
        /\ \A j \in 1..(i - 1) : tmp[j].chunk_id < tmp[i].chunk_id
        /\ \A c \in 1..(tmp[i].chunk_id - 1) :
              \E j \in 1..(i - 1) : tmp[j].chunk_id = c /\ HasSid(tmp[j])
        /\ HasSid(tmp[i])
        /\ IF tasks[tmp[i].chunk_id].st = "none"
           THEN tmp[i] = aman[i]
           ELSE /\ tasks[tmp[i].chunk_id].st = "got"
                /\ tmp[i].submission_id = tasks[tmp[i].chunk_id].sid

C7_Witness ==
    /\ apc = "gather"
    /\ Len(tmp) = 1
    /\ tasks[1].st = "got"
    /\ tasks[2].st = "raised"
    /\ 3 \in DOMAIN pending

\* C8, the concurrent uploader: a run that follows a run that returned
\* normally creates no task and sends no POST.
C8_AsyncResume ==
    aAfterFinished =>
        /\ aposts = 0
        /\ \A k \in DOMAIN tasks : tasks[k].st = "none"

\* C10: a POST that fails with a retryable outcome is tried again: no task
\* ends with the exception of a retryable failure after a single POST.
C10_RetryableIsRetried ==
    \A k \in DOMAIN tasks :
        (tasks[k].st = "raised" /\ tasks[k].kind \in RetryableKinds) => tasks[k].posts > 1

\* the run is over, the manifest is the writer's file and every entry of it
\* carries a submission_id
PatchedManifest ==
    /\ apc = "off"
    /\ aExit = "finished"
    /\ aman = tmp
    /\ Len(aman) = AChunks
    /\ \A i \in 1..Len(aman) : HasSid(aman[i])

\* the writer waits for a submission
WriterWaits ==
    /\ apc = "gather"
    /\ wpc = "run"
    /\ wi < Len(objs)
    /\ ~HasSid(objs[wi + 1])

\* C22: under fair scheduling a run in which no submission fails ends with
\* the patched manifest in place of the old one, every entry emitted; and
\* whenever the writer waits, it waits for the chunk id of a task that was
\* created and whose result has not been taken.
C22_RunCompletes ==
    /\ [](WriterWaits =>
            /\ objs[wi + 1].chunk_id = next_id
            /\ tasks[wi + 1].st \in {"queued", "inflight", "ok", "got", "raised"})
    /\ (apc = "gather") ~>
            (PatchedManifest \/ \E k \in DOMAIN tasks : tasks[k].st = "raised")

\* a run over a manifest of which a part was uploaded before has ended: the
\* writer copied an entry, emitted the others, and the manifest is patched
C22_Witness ==
    /\ PatchedManifest
    /\ \E k \in DOMAIN tasks : tasks[k].st = "none"
    /\ \E k \in DOMAIN tasks : tasks[k].st = "got"
    /\ \A k \in DOMAIN tasks : tasks[k].st # "raised"

\* C11: when a run stops on a fatal failure of one submission, the
\* submission_ids of the chunks the writer had emitted before are in the
\* manifest on disk.
C11_ProgressPreserved ==
    ( /\ apc = "off"
      /\ aExit = "failed"
      /\ \A k \in DOMAIN tasks : tasks[k].st = "raised" => tasks[k].kind = "http400" ) =>
        \A i \in 1..Len(tmp) :
            /\ HasSid(aman[i])
            /\ aman[i].submission_id = tmp[i].submission_id

(***************************************************************************)
(* post_chunks_turboDA_async.post_chunk, lines 17-36: the semaphore and    *)
(* the QPS throttle, with as many tasks as it takes to fill qps_window.    *)
(* The tasks run the same code and differ in nothing the throttle reads,   *)
(* so they are counted, not named.  Time is counted in ticks of            *)
(* 1/SecTicks second; what happens within one tick has the same time       *)
(* stamp.                                                                  *)
(***************************************************************************)
MAX_QPS == 20

\* mutant of SemFree: the semaphore lets every task in
SemFreeAlways(held) == TRUE

\* lines 17, 21: "async with sem" is entered when fewer than CONCURRENCY
\* tasks hold the semaphore
SemFree(held) == held < CONCURRENCY

\* line 24: [t for t in qps_window if now - t < 1]
Prune(w, now) == SelectSeq(w, LAMBDA t : now - t < SecTicks)

\* line 26: the time at which asyncio.sleep(1 - (now - qps_window[0])) ends
WakeTime(w, now) == now + (SecTicks - (now - w[1]))

InitThrottle ==
    /\ BuildIdle
    /\ SeqIdle
    /\ AsyncIdle
    /\ DumpIdle
    /\ qnow = 0
    /\ qps_window = <<>>
    /\ qqueued = QTasks
    /\ qsleep = <<>>
    /\ qinflight = 0
    /\ qstarts = <<>>

\* time passes
QTick ==
    /\ qnow < QMaxClock
    /\ qnow' = qnow + 1
    /\ UNCHANGED <<qps_window, qqueued, qsleep, qinflight, qstarts>>
    /\ UNCHANGED nonThrottle

\* lines 21-29, the window is not full: the task enters the semaphore,
\* stamps the window and sends its POST
QEnterPosts ==
    /\ qqueued > 0
    /\ SemFree(Len(qsleep) + qinflight)
    /\ Len(Prune(qps_window, qnow)) < MAX_QPS
    /\ qqueued' = qqueued - 1
    /\ qps_window' = Append(Prune(qps_window, qnow), qnow)
    /\ qinflight' = qinflight + 1
    /\ qstarts' = Append(qstarts, qnow)
    /\ UNCHANGED <<qnow, qsleep>>
    /\ UNCHANGED nonThrottle

\* lines 21-26, the window is full: the task enters the semaphore and
\* sleeps until the oldest stamp is one second old
QEnterSleeps ==
    /\ qqueued > 0
    /\ SemFree(Len(qsleep) + qinflight)
    /\ Len(Prune(qps_window, qnow)) >= MAX_QPS
    /\ qqueued' = qqueued - 1
    /\ qps_window' = Prune(qps_window, qnow)
    /\ qsleep' = Append(qsleep, WakeTime(Prune(qps_window, qnow), qnow))
    /\ UNCHANGED <<qnow, qinflight, qstarts>>
    /\ UNCHANGED nonThrottle

\* lines 27-29: the sleep is over; the task stamps the window and sends its
\* POST (the window is not looked at again)
QWakePosts ==
    /\ qsleep # <<>>
    /\ qsleep[1] <= qnow
    /\ qsleep' = Tail(qsleep)
    /\ qps_window' = Append(qps_window, qnow)
    /\ qinflight' = qinflight + 1
    /\ qstarts' = Append(qstarts, qnow)
    /\ UNCHANGED <<qnow, qqueued>>
    /\ UNCHANGED nonThrottle

\* lines 29-36: the POST ends (with a result or an exception) and the task
\* leaves the semaphore
QPostEnds ==
    /\ qinflight > 0
    /\ qinflight' = qinflight - 1
    /\ UNCHANGED <<qnow, qps_window, qqueued, qsleep, qstarts>>
    /\ UNCHANGED nonThrottle

NextThrottle ==
    \/ QTick
    \/ QEnterPosts
    \/ QEnterSleeps
    \/ QWakePosts
    \/ QPostEnds

SpecThrottle == InitThrottle /\ [][NextThrottle]_vars

\* C21: in every state at most CONCURRENCY tasks are past the semaphore and
\* not yet done with their request (asleep in the throttle or with the POST
\* in flight), however many tasks were created.
C21_PoolBounded ==
    /\ Len(qsleep) + qinflight <= CONCURRENCY
    /\ qinflight <= CONCURRENCY

\* the pool is full, all its POSTs are in flight, and tasks wait outside
C21_Witness ==
    /\ qinflight = CONCURRENCY
    /\ qqueued > 0
    /\ Len(qstarts) > CONCURRENCY

\* the number of POSTs started at the ticks t, ..., t + SecTicks - 1, which
\* all lie within one second
StartsInWindow(t) ==
    Cardinality({i \in 1..Len(qstarts) : t <= qstarts[i] /\ qstarts[i] < t + SecTicks})

\* C12: under every interleaving of the tasks, no more than MAX_QPS POSTs
\* are started within any window of one second.
C12_QpsCap ==
    \A t \in 0..qnow : StartsInWindow(t) <= MAX_QPS

(***************************************************************************)
(* lens-data-dump-900mb-limit.py: main reads the transactions in order,    *)
(* renders each as text, buffers the texts and submits the buffer as one   *)
(* blob when the next transaction would not fit.  Texts are modelled by    *)
(* their encoded lengths (len(s.encode())): a row is its table tag and the *)
(* length of its row_json, a buffered transaction is its tx_bytes.         *)
(***************************************************************************)
MAX_BLOB_BYTES == 1000000
SAFETY_MARGIN == 1024
MAX_PAYLOAD == MAX_BLOB_BYTES - SAFETY_MARGIN
MAX_TOTAL_BYTES == 900000000

\* len(tbl)
TblLen(tbl) == IF tbl = "events" THEN 6 ELSE 12

\* len(str(n)) for the part numbers that occur
Digits(n) == IF n < 10 THEN 1 ELSE 2

RECURSIVE Sum(_)
Sum(lens) == IF lens = <<>> THEN 0 ELSE lens[1] + Sum(Tail(lens))

\* len("\n".join(texts))
JoinLen(lens) == IF lens = <<>> THEN 0 ELSE Sum(lens) + (Len(lens) - 1)

\* line 120-121: line = f"{tbl}:{row_json}"
LineBytes(row) == TblLen(row.tbl) + 1 + row.json

\* lines 125, 134: f"{tbl}-part{part_num}" if part_num > 1 else tbl
LabelLen(tbl, part_num) ==
    IF part_num > 1 THEN TblLen(tbl) + 5 + Digits(part_num) ELSE TblLen(tbl)

\* line 118
NoParts == [parts |-> <<>>, part_buf |-> <<>>, part_size |-> 0, part_num |-> 1]

\* lines 120-130: one row of the transaction
SplitStep(st, row) ==
    LET flushed ==
            IF st.part_size + LineBytes(row) > MAX_PAYLOAD /\ st.part_buf # <<>>
            THEN [parts |-> Append(st.parts,
                                   [label |-> LabelLen(row.tbl, st.part_num),
                                    payload |-> JoinLen(st.part_buf)]),
                  part_buf |-> <<>>, part_size |-> 0, part_num |-> st.part_num + 1]
            ELSE st
    IN  [flushed EXCEPT !.part_buf = Append(@, LineBytes(row)),
                        !.part_size = @ + LineBytes(row)]

RECURSIVE SplitRows(_, _, _)
SplitRows(rows, i, st) ==
    IF i > Len(rows) THEN st ELSE SplitRows(rows, i + 1, SplitStep(st, rows[i]))

\* lines 118-135: the parts of a transaction, each its label and payload
Parts(rows) ==
    LET st == SplitRows(rows, 1, NoParts)
    IN  IF st.part_buf # <<>>
        THEN Append(st.parts, [label |-> LabelLen(rows[Len(rows)].tbl, st.part_num),
                               payload |-> JoinLen(st.part_buf)])
        ELSE st.parts

\* lines 138-139: tx_blob joins f"{label}:\n{payload}" of the parts
TxBytes(rows) ==
    JoinLen([i \in 1..Len(Parts(rows)) |-> Parts(rows)[i].label + 2 + Parts(rows)[i].payload])

\* lines 149, 171: len("\n".join(buffer).encode())
BlobBytes(txs) == JoinLen(txs)

\* line 148
NeedsFlush(size, tx_bytes, txs) == size + tx_bytes > MAX_PAYLOAD /\ txs # <<>>

\* mutant of OverQuota: the quota is looked at before the blob is counted
OverQuotaBefore(sent, n) == sent >= MAX_TOTAL_BYTES

\* line 150
OverQuota(sent, n) == sent + n > MAX_TOTAL_BYTES

\* line 172
FitsQuota(sent, n) == sent + n <= MAX_TOTAL_BYTES

\* line 58: submit_blob refuses the payload
TooLarge(n) == n >= MAX_BLOB_BYTES

(* ---- the transactions of the data base ---- *)
\* a transaction of one events row whose tx_bytes is n
OneRow(n) == <<[tbl |-> "events", json |-> n - 15]>>

\* a thousand transactions of this size are the quota
FillerBytes == MAX_TOTAL_BYTES \div 1000

TxShapes ==
    { OneRow(108),
      OneRow(FillerBytes),
      OneRow(400000),
      OneRow(MAX_PAYLOAD - 400000),
      <<[tbl |-> "events", json |-> 1000], [tbl |-> "storage_logs", json |-> 2000]>>,
      <<[tbl |-> "events", json |-> 600000], [tbl |-> "storage_logs", json |-> 600000]>>,
      <<[tbl |-> "events", json |-> MAX_BLOB_BYTES]>> }

DFills == {0, MaxFill - 2, MaxFill - 1, MaxFill}

\* the transactions fetch_tx_list can yield next; none: the list is at its end
NextTxs ==
    IF dpos < dfill THEN {OneRow(FillerBytes)}
    ELSE IF dpos - dfill < MaxTail THEN TxShapes ELSE {}

\* lines 102-110
InitDump ==
    /\ BuildIdle
    /\ SeqIdle
    /\ AsyncIdle
    /\ ThrottleIdle
    /\ dpc = "loop"
    /\ dfill \in DFills
    /\ dpos = 0
    /\ buffer = <<>>
    /\ buf_size = 0
    /\ blobs = 0
    /\ bytes_sent = 0
    /\ dstopped = FALSE
    /\ dlate = FALSE
    /\ dtxsent = 0
    /\ dlast = 0

\* lines 112-115: the quota is used up when the next transaction arrives
DQuotaStop ==
    /\ dpc = "loop"
    /\ NextTxs # {}
    /\ bytes_sent >= MAX_TOTAL_BYTES
    /\ dpos' = dpos + 1
    /\ dstopped' = TRUE
    /\ dpc' = "remainder"
    /\ UNCHANGED <<dfill, buffer, buf_size, blobs, bytes_sent, dlate, dtxsent, dlast>>
    /\ UNCHANGED nonDump

\* lines 112-145: the transaction is larger than MAX_PAYLOAD
DSkipTx ==
    /\ dpc = "loop"
    /\ bytes_sent < MAX_TOTAL_BYTES
    /\ \E tx \in NextTxs : TxBytes(tx) > MAX_PAYLOAD
    /\ dpos' = dpos + 1
    /\ UNCHANGED <<dpc, dfill, buffer, buf_size, blobs, bytes_sent, dstopped, dlate, dtxsent,
                   dlast>>
    /\ UNCHANGED nonDump

\* lines 112-162: the transaction fits into the buffer
DBufferTx ==
    /\ dpc = "loop"
    /\ bytes_sent < MAX_TOTAL_BYTES
    /\ \E tx \in NextTxs :
        /\ TxBytes(tx) <= MAX_PAYLOAD
        /\ ~NeedsFlush(buf_size, TxBytes(tx), buffer)
        /\ buffer' = Append(buffer, TxBytes(tx))
        /\ buf_size' = buf_size + TxBytes(tx)
    /\ dpos' = dpos + 1
    /\ UNCHANGED <<dpc, dfill, blobs, bytes_sent, dstopped, dlate, dtxsent, dlast>>
    /\ UNCHANGED nonDump

\* lines 112-152: the buffer must go, and the blob would exceed the quota
DFlushStop ==
    /\ dpc = "loop"
    /\ bytes_sent < MAX_TOTAL_BYTES
    /\ \E tx \in NextTxs :
        /\ TxBytes(tx) <= MAX_PAYLOAD
        /\ NeedsFlush(buf_size, TxBytes(tx), buffer)
    /\ OverQuota(bytes_sent, BlobBytes(buffer))
    /\ dpos' = dpos + 1
    /\ dstopped' = TRUE
    /\ dpc' = "remainder"
    /\ UNCHANGED <<dfill, buffer, buf_size, blobs, bytes_sent, dlate, dtxsent, dlast>>
    /\ UNCHANGED nonDump

\* lines 112-162: the buffer is submitted, the transaction starts the next one
DFlushSubmit ==
    /\ dpc = "loop"
    /\ bytes_sent < MAX_TOTAL_BYTES
    /\ ~OverQuota(bytes_sent, BlobBytes(buffer))
    /\ ~TooLarge(BlobBytes(buffer))
    /\ \E tx \in NextTxs :
        /\ TxBytes(tx) <= MAX_PAYLOAD
        /\ NeedsFlush(buf_size, TxBytes(tx), buffer)
        /\ buffer' = <<TxBytes(tx)>>
        /\ buf_size' = TxBytes(tx)
    /\ dlast' = BlobBytes(buffer)
    /\ blobs' = blobs + 1
    /\ bytes_sent' = bytes_sent + BlobBytes(buffer)
    /\ dtxsent' = dtxsent + Len(buffer)
    /\ dlate' = (dlate \/ dstopped)
    /\ dpos' = dpos + 1
    /\ UNCHANGED <<dpc, dfill, dstopped>>
    /\ UNCHANGED nonDump

\* lines 112-153: submit_blob raises (the payload is too large, the POST
\* fails after its retries, the answer is an error status)
DFlushRaises ==
    /\ dpc = "loop"
    /\ bytes_sent < MAX_TOTAL_BYTES
    /\ ~OverQuota(bytes_sent, BlobBytes(buffer))
    /\ \E tx \in NextTxs :
        /\ TxBytes(tx) <= MAX_PAYLOAD
        /\ NeedsFlush(buf_size, TxBytes(tx), buffer)
    /\ dlast' = BlobBytes(buffer)
    /\ dpos' = dpos + 1
    /\ dpc' = "failed"
    /\ UNCHANGED <<dfill, buffer, buf_size, blobs, bytes_sent, dstopped, dlate, dtxsent>>
    /\ UNCHANGED nonDump

\* line 112: fetch_tx_list is at its end
DEndOfList ==
    /\ dpc = "loop"
    /\ dpos >= dfill
    /\ dpc' = "remainder"
    /\ UNCHANGED <<dfill, dpos, buffer, buf_size, blobs, bytes_sent, dstopped, dlate, dtxsent,
                   dlast>>
    /\ UNCHANGED nonDump

\* lines 170-177: the remainder is submitted
DRemainderSubmit ==
    /\ dpc = "remainder"
    /\ buffer # <<>>
    /\ bytes_sent < MAX_TOTAL_BYTES
    /\ FitsQuota(bytes_sent, BlobBytes(buffer))
    /\ ~TooLarge(BlobBytes(buffer))
    /\ dlast' = BlobBytes(buffer)
    /\ blobs' = blobs + 1
    /\ bytes_sent' = bytes_sent + BlobBytes(buffer)
    /\ dtxsent' = dtxsent + Len(buffer)
    /\ dlate' = (dlate \/ dstopped)
    /\ dpc' = "done"
    /\ UNCHANGED <<dfill, dpos, buffer, buf_size, dstopped>>
    /\ UNCHANGED nonDump

\* lines 170-173: submit_blob raises on the remainder
DRemainderRaises ==
    /\ dpc = "remainder"
    /\ buffer # <<>>
    /\ bytes_sent < MAX_TOTAL_BYTES
    /\ FitsQuota(bytes_sent, BlobBytes(buffer))
    /\ dlast' = BlobBytes(buffer)
    /\ dpc' = "failed"
    /\ UNCHANGED <<dfill, dpos, buffer, buf_size, blobs, bytes_sent, dstopped, dlate, dtxsent>>
    /\ UNCHANGED nonDump

\* lines 170-182: nothing is left, or the quota does not allow the remainder
DRemainderKept ==
    /\ dpc = "remainder"
    /\ ~(buffer # <<>> /\ bytes_sent < MAX_TOTAL_BYTES
         /\ FitsQuota(bytes_sent, BlobBytes(buffer)))
    /\ dpc' = "done"
    /\ UNCHANGED <<dfill, dpos, buffer, buf_size, blobs, bytes_sent, dstopped, dlate, dtxsent,
                   dlast>>
    /\ UNCHANGED nonDump

NextDump ==
    \/ DQuotaStop
    \/ DSkipTx
    \/ DBufferTx
    \/ DFlushStop
    \/ DFlushSubmit
    \/ DFlushRaises
    \/ DEndOfList
    \/ DRemainderSubmit
    \/ DRemainderRaises
    \/ DRemainderKept

SpecDump == InitDump /\ [][NextDump]_vars

(***************************************************************************)
(* Properties of the dump                                                  *)
(***************************************************************************)
\* C15: the total bytes_sent of the blobs submitted never exceeds
\* MAX_TOTAL_BYTES, and once main has left its loop on a quota test no
\* blob is submitted any more.
C15_QuotaRespected ==
    /\ bytes_sent <= MAX_TOTAL_BYTES
    /\ ~dlate

\* main stopped on the second quota test with a blob it could not send; the
\* remainder step has kept that blob back
C15_Witness ==
    /\ dpc = "done"
    /\ dstopped
    /\ buffer # <<>>
    /\ blobs >= 1
    /\ bytes_sent < MAX_TOTAL_BYTES
    /\ bytes_sent + BlobBytes(buffer) > MAX_TOTAL_BYTES

\* C16: when main ends without a failure and without a quota stop, every
\* transaction fetch_tx_list yielded is in a blob that was submitted, the
\* ones whose rows exceed the payload limit included.
C16_NoTxLeftOut ==
    (dpc = "done" /\ ~dstopped) => dtxsent = dpos

\* C17: every blob handed to submit_blob is at most MAX_PAYLOAD bytes long,
\* separators counted, and buf_size is never less than the length of the
\* blob the buffer makes.
C17_BlobWithinPayload ==
    /\ dlast <= MAX_PAYLOAD
    /\ buf_size >= BlobBytes(buffer)

====
